---- MODULE Spec2Model ----
(***************************************************************************)
(* Playback controller of the reading aid (the TextInput component): the   *)
(* chunker, the chunk-by-chunk speech sequencing with its callbacks and    *)
(* timers, the voice settings and the wake-lock coordinator.               *)
(*                                                                         *)
(* Numbers with one decimal (rate, pitch, volume) are kept in tenths:      *)
(* 9 is 0.9, 20 is 2.0.  Chunk indices are 0-based as in the source; the   *)
(* chunk with index i is chunks[i + 1].                                    *)
(***************************************************************************)
EXTENDS Integers, Sequences, FiniteSets, TLC

\* ------------------------------------------------------------------ bounds
\* Closures of playChunks that can be alive (utterance, callback or timer) at once.
MaxSessions == 2
\* wakeLock.request() promises in flight at once.
MaxAcquire == 2
\* release() continuations in flight at once.
MaxRelease == 1
\* Wake-lock sentinels the platform holds at once.
MaxHandles == 1
\* setTimeout(playChunks, 100) restarts of applyVoiceSettings pending at once.
MaxRestarts == 1
\* Submissions logged in a session with pause and resume.
MaxLog == 4
\* Letters by which the longest uploaded word exceeds the chunk length.
MaxOverlong == 5
\* Date.now() advances in steps of TickMs milliseconds, MaxTicks times.
TickMs == 500
MaxTicks == 3

\* --------------------------------------------------------------- constants
NULL == -1
NoHandle == 0
\* /.{1,250}(\s|$)/g
ChunkMaxLen == 250
\* Math.max(0.7, ...), Math.min(2.0, ...), in tenths
MinSentenceRate == 7
MaxQuestionPitch == 20
SentencePause == 350
ChunkPause == 200

Max(a, b) == IF a >= b THEN a ELSE b
Min(a, b) == IF a <= b THEN a ELSE b

\* ----------------------------------------------------------------- chunker
IsWhitespace(c) == c \in {" ", "\n", "\t"}
IsLineTerminator(c) == c = "\n"
IsSentenceEnd(c) == c \in {".", "!", "?"}

\* The longest run `.{1,maxLen}` can take from position p (1-based): up to
\* maxLen characters, ending before the first line terminator and at the end
\* of the input.
DotRun(t, p, maxLen) ==
  LET last == Min(Len(t), p + maxLen - 1)
      nl == {q \in p..last : IsLineTerminator(t[q])}
  IN IF nl = {} THEN last - p + 1
     ELSE (CHOOSE q \in nl : \A r \in nl : q <= r) - p

\* Length of the match of /.{1,maxLen}(\s|$)/ that starts at p, 0 when none:
\* the greedy quantifier backtracks from the longest run to the first length
\* after which a whitespace character or the end of the input follows.
MatchAt(t, p, maxLen) ==
  LET run == DotRun(t, p, maxLen)
      ok == {k \in 1..run : p + k = Len(t) + 1 \/ IsWhitespace(t[p + k])}
  IN IF ok = {} THEN 0
     ELSE LET k == CHOOSE x \in ok : \A y \in ok : y <= x
          IN IF p + k <= Len(t) THEN k + 1 ELSE k

\* String.prototype.match with the g flag: the successive matches, the scan
\* moving one character on where no match starts.
RECURSIVE MatchAll(_, _, _)
MatchAll(t, p, maxLen) ==
  IF p > Len(t) THEN <<>>
  ELSE LET m == MatchAt(t, p, maxLen)
       IN IF m = 0 THEN MatchAll(t, p + 1, maxLen)
          ELSE <<SubSeq(t, p, p + m - 1)>> \o MatchAll(t, p + m, maxLen)

ChunksOf(t) == IF t = <<>> THEN <<>> ELSE MatchAll(t, 1, ChunkMaxLen)

\* text.match(/[.!?]$/) and text.match(/\?$/) on a chunk
EndsSentence(c) == c # <<>> /\ IsSentenceEnd(c[Len(c)])
IsQuestion(c) == c # <<>> /\ c[Len(c)] = "?"

\* text.trim() is not empty
HasText(t) == \E i \in 1..Len(t) : ~IsWhitespace(t[i])

\* The chunks joined in order.
RECURSIVE Join(_)
Join(cs) == IF cs = <<>> THEN <<>> ELSE Head(cs) \o Join(Tail(cs))

\* A word of n letters, the texts of at most two characters, and the texts a
\* plain-text file is uploaded with: a word of about ChunkMaxLen letters, or
\* none, between two short texts.
Word(n) == [i \in 1..n |-> "a"]
ShortTexts ==
  LET Alphabet == {" ", "\n", "a", "."}
  IN {<<>>} \cup {<<c>> : c \in Alphabet} \cup {<<c, d>> : c \in Alphabet, d \in Alphabet}
UploadTexts ==
  {pre \o mid \o post :
     pre \in ShortTexts, post \in ShortTexts,
     mid \in {<<>>, Word(ChunkMaxLen - 1), Word(ChunkMaxLen),
              Word(ChunkMaxLen + 1), Word(ChunkMaxLen + MaxOverlong)}}

\* Texts the component is opened with.
SampleTexts ==
  { <<"a">>,
    <<"a", ".", "\n", "b", "?">>,
    <<"a", "\n", "b", " ", "\n", "c", ".">> }

\* ---------------------------------------------------------------- settings
Voices == {"v1", "v2"}
DefaultVoiceURI == "v1"
NoVoice == "none"
DefaultSettings == [voiceURI |-> NoVoice, rate |-> 9, pitch |-> 10, volume |-> 10]
\* Positions <<rate, pitch, volume>> the user leaves the three sliders at
\* (rate and pitch: min 0.5, max 2, step 0.1; volume: min 0, max 1).
SliderChoices == {<<20, 20, 0>>, <<5, 5, 10>>}

VARIABLES
  text,               \* the text state, a sequence of one-character strings
  title,              \* the title state
  chunks,             \* the chunks of text, computed at each render
  isPlaying,          \* useState isPlaying
  currentChunkIndex,  \* useState currentChunkIndex, NULL for null
  isPausedRef,        \* isPausedRef.current
  voiceSettings,      \* committed settings
  tempVoiceSettings,  \* the draft of the settings dialog
  availableVoices,    \* voices loaded from the engine
  showModal,          \* the reader dialog is open
  showSettings,       \* the settings dialog is open
  toast,              \* title of the last toast shown, "none" before the first
  sessions,           \* the live closures of playChunks: slot -> record
  restarts,           \* pending setTimeout(() => playChunks(k), 100)
  queue,              \* speechSynthesis: utterances submitted and not finished
  enginePaused,       \* speechSynthesis.paused
  cancelFires,        \* the event this browser fires on a cancelled utterance
  pendingEvents,      \* events of cancelled utterances not delivered yet
  wakeSupported,      \* 'wakeLock' in navigator
  wakeLockRef,        \* wakeLockRef.current, NoHandle for null
  acquirePending,     \* wakeLock.request() promises not settled
  releasePending,     \* releaseWakeLock calls waiting on release()
  liveHandles,        \* sentinels the platform holds
  visible,            \* document.visibilityState === 'visible'
  stopped,            \* history: stopPlayback ran and playChunks has not run since
  recording,          \* history: whether submitLog is kept in this specification
  submitLog,          \* history: the chunk indices submitted to the engine, in order
  hook,               \* the state and refs of useSpeechSynthesis, as a record
  now                 \* Date.now(), in milliseconds

vars == <<text, title, chunks, isPlaying, currentChunkIndex, isPausedRef, voiceSettings,
          tempVoiceSettings, availableVoices, showModal, showSettings, toast,
          sessions, restarts, queue, enginePaused, cancelFires, pendingEvents,
          wakeSupported, wakeLockRef, acquirePending, releasePending,
          liveHandles, visible, stopped, recording, submitLog, hook, now>>

\* A closure of playChunks: its local index, the settings and voices of the
\* render it closes over, where it stands (speaking: its utterance is with the
\* engine or the event of it is due; waiting: its timer is pending) and the
\* pending delay.  History: staleIn says where the closure stood when a
\* stopPlayback or a later playChunks superseded it ("none" before).
DeadSession == [index |-> 0, vs |-> DefaultSettings, voices |-> {},
                phase |-> "dead", pause |-> 0, staleIn |-> "none"]

\* The component's state as one record, so that a handler is a function on it.
St ==
  [isPlaying |-> isPlaying, currentChunkIndex |-> currentChunkIndex,
   isPausedRef |-> isPausedRef, voiceSettings |-> voiceSettings,
   tempVoiceSettings |-> tempVoiceSettings, availableVoices |-> availableVoices,
   showModal |-> showModal, showSettings |-> showSettings, toast |-> toast,
   sessions |-> sessions, restarts |-> restarts, queue |-> queue,
   enginePaused |-> enginePaused, pendingEvents |-> pendingEvents,
   wakeLockRef |-> wakeLockRef, acquirePending |-> acquirePending,
   releasePending |-> releasePending, liveHandles |-> liveHandles,
   visible |-> visible, stopped |-> stopped, submitted |-> <<>>]

Assign(s) ==
  /\ isPlaying' = s.isPlaying
  /\ currentChunkIndex' = s.currentChunkIndex
  /\ isPausedRef' = s.isPausedRef
  /\ voiceSettings' = s.voiceSettings
  /\ tempVoiceSettings' = s.tempVoiceSettings
  /\ availableVoices' = s.availableVoices
  /\ showModal' = s.showModal
  /\ showSettings' = s.showSettings
  /\ toast' = s.toast
  /\ sessions' = s.sessions
  /\ restarts' = s.restarts
  /\ queue' = s.queue
  /\ enginePaused' = s.enginePaused
  /\ pendingEvents' = s.pendingEvents
  /\ wakeLockRef' = s.wakeLockRef
  /\ acquirePending' = s.acquirePending
  /\ releasePending' = s.releasePending
  /\ liveHandles' = s.liveHandles
  /\ visible' = s.visible
  /\ stopped' = s.stopped
  /\ submitLog' = IF recording THEN submitLog \o s.submitted ELSE submitLog
  /\ UNCHANGED <<cancelFires, wakeSupported, recording, hook, now>>

Commit(s) == Assign(s) /\ UNCHANGED <<text, title, chunks>>

\* ------------------------------------------------------------- wake lock
\* requestWakeLock up to its await: a request is issued when the platform has
\* the API and the ref is null.
requestWakeLock(s) ==
  IF wakeSupported /\ s.wakeLockRef = NoHandle
  THEN [s EXCEPT !.acquirePending = @ + 1]
  ELSE s

\* releaseWakeLock up to its await: release() is called on the held sentinel;
\* the ref is cleared only when the promise settles (ReleaseSettles).
releaseWakeLock(s) ==
  IF s.wakeLockRef # NoHandle
  THEN [s EXCEPT !.liveHandles = @ \ {s.wakeLockRef}, !.releasePending = @ + 1]
  ELSE s

\* ---------------------------------------------------------- speech engine
\* speechSynthesis.speaking
speaking(s) == s.queue # <<>>

\* speechSynthesis.cancel(): the queue is emptied; for each removed chunk
\* utterance the browser later fires the event of its kind (end, error) or
\* none, and with none the closure of that utterance is never entered again.
cancel(s) ==
  LET gone == {s.queue[i] : i \in 1..Len(s.queue)}
      chunkGone == {u \in gone : u.kind = "chunk"}
  IN [s EXCEPT
        !.queue = <<>>,
        !.pendingEvents =
           IF cancelFires = "none" THEN @
           ELSE @ \cup {[utt |-> u, ev |-> cancelFires] : u \in chunkGone},
        !.sessions =
           IF cancelFires = "none"
           THEN [i \in DOMAIN @ |->
                   IF \E u \in chunkGone : u.sess = i THEN DeadSession ELSE @[i]]
           ELSE @]

\* speechSynthesis.speak(utterance)
speak(s, u) ==
  [s EXCEPT !.queue = Append(@, u),
            !.submitted = IF u.kind = "chunk" THEN Append(@, u.index) ELSE @]

\* createUtterance under the settings and voices the closure was rendered with.
createUtterance(vs, voices) ==
  [voice |-> IF vs.voiceURI # NoVoice /\ vs.voiceURI \in voices
             THEN vs.voiceURI ELSE "default",
   rate |-> vs.rate, pitch |-> vs.pitch, volume |-> vs.volume]

\* Rate and pitch of the utterance of a chunk (the prosody of speakChunk).
ChunkRate(vs, c) ==
  IF EndsSentence(c) THEN Max(MinSentenceRate, vs.rate - 1) ELSE vs.rate
\* A question pitch raised without the cap of Math.min.
ChunkPitchUncapped(vs, c) ==
  IF IsQuestion(c) THEN vs.pitch + 1 ELSE vs.pitch

ChunkPitch(vs, c) ==
  IF IsQuestion(c) THEN Min(MaxQuestionPitch, vs.pitch + 1) ELSE vs.pitch

ChunkUtterance(sid, idx, vs, voices) ==
  LET base == createUtterance(vs, voices)
      c == chunks[idx + 1]
  IN [kind |-> "chunk", sess |-> sid, index |-> idx, voice |-> base.voice,
      rate |-> ChunkRate(vs, c), pitch |-> ChunkPitch(vs, c),
      volume |-> base.volume]

\* ------------------------------------------------------------ sequencing
\* What the three failure/end paths of speakChunk share.
EndSession(s, sid) ==
  releaseWakeLock([s EXCEPT !.isPlaying = FALSE, !.currentChunkIndex = NULL,
                            !.sessions[sid] = DeadSession])

\* A speakChunk that does not look at isPausedRef.
speakChunkIgnoringPause(s, sid, throws) ==
  LET me == s.sessions[sid] IN
  IF me.index >= Len(chunks)
  THEN EndSession(s, sid)
  ELSE LET s1 == [s EXCEPT !.currentChunkIndex = me.index,
                           !.sessions[sid].phase = "speaking",
                           !.sessions[sid].pause = 0]
       IN IF throws
          THEN EndSession(s1, sid)
          ELSE speak(s1, ChunkUtterance(sid, me.index, me.vs, me.voices))

\* speakChunk of the closure in slot sid; throws: speechSynthesis.speak throws.
speakChunk(s, sid, throws) ==
  LET me == s.sessions[sid] IN
  IF me.index >= Len(chunks) \/ s.isPausedRef
  THEN IF me.index >= Len(chunks)
       THEN EndSession(s, sid)
       ELSE [s EXCEPT !.sessions[sid] = DeadSession]
  ELSE LET s1 == [s EXCEPT !.currentChunkIndex = me.index,
                           !.sessions[sid].phase = "speaking",
                           !.sessions[sid].pause = 0]
       IN IF throws
          THEN EndSession(s1, sid)
          ELSE speak(s1, ChunkUtterance(sid, me.index, me.vs, me.voices))

\* An onend that advances its closure by two chunks.
onendSkipping(s, u) ==
  IF u.kind # "chunk" THEN s
  ELSE [s EXCEPT !.sessions[u.sess].index = @ + 2,
                 !.sessions[u.sess].phase = "waiting",
                 !.sessions[u.sess].pause =
                    IF EndsSentence(chunks[u.index + 1])
                    THEN SentencePause ELSE ChunkPause]

\* utterance.onend of a chunk utterance
onend(s, u) ==
  IF u.kind # "chunk" THEN s
  ELSE [s EXCEPT !.sessions[u.sess].index = @ + 1,
                 !.sessions[u.sess].phase = "waiting",
                 !.sessions[u.sess].pause =
                    IF EndsSentence(chunks[u.index + 1])
                    THEN SentencePause ELSE ChunkPause]

\* utterance.onerror of a chunk utterance
onerror(s, u) ==
  IF u.kind # "chunk" THEN s
  ELSE EndSession(s, u.sess)

\* History: the closure is superseded by a stop or a later play.
Superseded(me) ==
  IF me.phase # "dead" /\ me.staleIn = "none"
  THEN [me EXCEPT !.staleIn = me.phase]
  ELSE me

FreeSlots(s) == {i \in DOMAIN s.sessions : s.sessions[i].phase = "dead"}
FreeSlot(s) == CHOOSE i \in FreeSlots(s) : \A j \in FreeSlots(s) : i <= j

\* playChunks(startIndex) of a render with settings vs and voices.
playChunks(s, startIndex, vs, voices, throws) ==
  IF Len(chunks) = 0 THEN s
  ELSE LET s1 == requestWakeLock(cancel(s))
           sid == FreeSlot(s1)
           s2 == [s1 EXCEPT !.isPlaying = TRUE, !.isPausedRef = FALSE,
                            !.stopped = FALSE,
                            !.sessions =
                               [i \in DOMAIN @ |->
                                  IF i = sid
                                  THEN [index |-> startIndex, vs |-> vs,
                                        voices |-> voices, phase |-> "speaking",
                                        pause |-> 0, staleIn |-> "none"]
                                  ELSE Superseded(@[i])]]
       IN speakChunk(s2, sid, throws)

pausePlayback(s) ==
  [s EXCEPT !.enginePaused = TRUE, !.isPlaying = FALSE, !.isPausedRef = TRUE]

\* A resumePlayback that only resumes the engine.
resumePlaybackInPlaceOnly(s, throws) ==
  [s EXCEPT !.enginePaused = FALSE, !.isPlaying = TRUE, !.isPausedRef = FALSE]

resumePlayback(s, throws) ==
  LET s1 == [s EXCEPT !.enginePaused = FALSE, !.isPlaying = TRUE,
                      !.isPausedRef = FALSE]
  IN IF ~speaking(s1) /\ s.currentChunkIndex # NULL
     THEN playChunks(s1, s.currentChunkIndex, s.voiceSettings,
                     s.availableVoices, throws)
     ELSE s1

\* A stopPlayback that leaves the cursor where it is.
stopPlaybackKeepingCursor(s) ==
  LET s1 == [s EXCEPT !.stopped = TRUE,
                      !.sessions = [i \in DOMAIN @ |-> Superseded(@[i])]]
  IN releaseWakeLock([cancel(s1) EXCEPT !.isPlaying = FALSE,
                                        !.isPausedRef = FALSE])

stopPlayback(s) ==
  LET s1 == [s EXCEPT !.stopped = TRUE,
                      !.sessions = [i \in DOMAIN @ |-> Superseded(@[i])]]
  IN releaseWakeLock([cancel(s1) EXCEPT !.isPlaying = FALSE,
                                        !.currentChunkIndex = NULL,
                                        !.isPausedRef = FALSE])

\* A handleTextSelection that plays from the first chunk.
handleTextSelectionFromStart(s, index, throws) ==
  playChunks(stopPlayback(s), 0, s.voiceSettings, s.availableVoices, throws)

handleTextSelection(s, index, throws) ==
  playChunks(stopPlayback(s), index, s.voiceSettings, s.availableVoices, throws)

\* ---------------------------------------------------------------- settings
openSettings(s) ==
  [s EXCEPT !.tempVoiceSettings = s.voiceSettings, !.showSettings = TRUE]

\* The restart is the playChunks of the render in which Apply was clicked: it
\* closes over the voiceSettings of that render.  History: applied is the
\* draft this call commits.
applyVoiceSettings(s) ==
  LET s1 == [s EXCEPT !.voiceSettings = s.tempVoiceSettings]
      s2 == IF s.isPlaying \/ s.isPausedRef
            THEN LET s3 == stopPlayback(s1)
                 IN IF s.currentChunkIndex # NULL
                    THEN [s3 EXCEPT !.restarts = @ \cup
                            {[index |-> s.currentChunkIndex,
                              vs |-> s.voiceSettings,
                              voices |-> s.availableVoices,
                              applied |-> s.tempVoiceSettings]}]
                    ELSE s3
            ELSE s1
  IN [s2 EXCEPT !.toast = "Settings Applied", !.showSettings = FALSE]

\* loadVoices of the mount effect: its closure sees the first render, where
\* voiceSettings.voiceURI is null.
loadVoices(s) ==
  [s EXCEPT !.availableVoices = Voices,
            !.voiceSettings.voiceURI = DefaultVoiceURI,
            !.tempVoiceSettings.voiceURI = DefaultVoiceURI]

\* handleWordSelection with one word selected
handleWordSelection(s) ==
  LET base == createUtterance(s.voiceSettings, s.availableVoices)
  IN speak(cancel(s),
           [kind |-> "word", sess |-> 0, index |-> NULL, voice |-> base.voice,
            rate |-> base.rate, pitch |-> base.pitch, volume |-> base.volume])

\* ------------------------------------------------- useSpeechSynthesis
\* Times are in milliseconds; progress is kept in tenths of a percent
\* (1000 is 100); a formatted time "m:ss" is the pair <<m, ss>>.
Epoch == 100000
FullProgress == 1000
MsPerMinute == 60000
MsPerSecond == 1000
\* The texts the hook is asked to speak: five words, one word, a blank, none.
FiveWords == <<"a", " ", "b", " ", "c", "\n", "d", " ", "e">>
HookTexts == {FiveWords, <<" ", "a", " ">>, <<" ">>, <<>>}

\* The remainder operator of numbers: the sign is the dividend's.
JsRem(a, b) == IF a >= 0 THEN a % b ELSE 0 - ((0 - a) % b)

\* formatTime of ms / 1000 seconds: floor(seconds / 60), floor(seconds % 60)
formatTime(ms) == <<ms \div MsPerMinute, JsRem(ms, MsPerMinute) \div MsPerSecond>>

\* text.trim()
trim(t) ==
  LET shown == {i \in 1..Len(t) : ~IsWhitespace(t[i])}
  IN IF shown = {} THEN <<>>
     ELSE SubSeq(t, CHOOSE i \in shown : \A j \in shown : i <= j,
                    CHOOSE i \in shown : \A j \in shown : i >= j)

\* t.split(/\s+/).length: one more than the runs of whitespace in t
SplitLength(t) ==
  1 + Cardinality({i \in 1..Len(t) :
                     IsWhitespace(t[i]) /\ (i = 1 \/ ~IsWhitespace(t[i - 1]))})

\* estimateReadingTime, in ms: words / (150 / playbackSpeed) * 60 seconds,
\* playbackSpeed in tenths.
estimateReadingTime(t, playbackSpeed) ==
  LET words == SplitLength(trim(t))
  IN words * playbackSpeed * 40

HookInit ==
  [isPlaying |-> FALSE, isPaused |-> FALSE, playbackSpeed |-> 10,
   currentTime |-> <<0, 0>>, totalTime |-> <<0, 0>>, progress |-> 0,
   utteranceRef |-> <<>>,  \* <<>> is null, <<t>> the utterance of text t
   startTimeRef |-> 0, pausedTimeRef |-> 0,
   frames |-> {}, events |-> {},
   restarts |-> {},        \* the timeouts of setSpeed not fired yet
   stopped |-> FALSE]  \* history: stop ran and speak has not run since

\* The hook with the engine it drives, as one record.
HookSt == [h |-> hook, queue |-> queue, enginePaused |-> enginePaused]

HookCommit(s) ==
  /\ hook' = s.h
  /\ queue' = s.queue
  /\ enginePaused' = s.enginePaused
  /\ UNCHANGED <<text, title, chunks, isPlaying, currentChunkIndex, isPausedRef,
                 voiceSettings, tempVoiceSettings, availableVoices, showModal,
                 showSettings, toast, sessions, restarts, cancelFires,
                 pendingEvents, wakeSupported, wakeLockRef, acquirePending,
                 releasePending, liveHandles, visible, stopped, recording,
                 submitLog, now>>

\* speechSynthesis.cancel() as the hook sees it: the event of a cancelled
\* utterance of the hook is delivered later, or never.
Hook_cancel(s) ==
  LET gone == {s.queue[i] : i \in 1..Len(s.queue)}
      mine == {u \in gone : u.kind = "hook"}
  IN [s EXCEPT !.queue = <<>>,
               !.h.events = IF cancelFires = "none" THEN @
                            ELSE @ \cup {[ev |-> cancelFires, total |-> u.total] :
                                           u \in mine}]

\* utterance.onstart
Hook_onstart(s) ==
  [s EXCEPT !.h.isPlaying = TRUE, !.h.isPaused = FALSE,
            !.h.startTimeRef = now, !.h.pausedTimeRef = 0]

\* utterance.onend; total is the totalTime of the render speak was made in
Hook_onend(s, total) ==
  [s EXCEPT !.h.isPlaying = FALSE, !.h.isPaused = FALSE,
            !.h.progress = FullProgress, !.h.currentTime = total]

\* utterance.onerror
Hook_onerror(s) ==
  [s EXCEPT !.h.isPlaying = FALSE, !.h.isPaused = FALSE,
            !.h.progress = 0, !.h.currentTime = <<0, 0>>]

\* speak(text) of the render the hook is in: the utterance, its handlers and
\* updateProgress close over playbackSpeed, totalTime, isPlaying and isPaused
\* of that render.
\* What the callbacks of a render close over.
HookRender(h) ==
  [playbackSpeed |-> h.playbackSpeed, totalTime |-> h.totalTime,
   isPlaying |-> h.isPlaying, isPaused |-> h.isPaused]

\* speak(text) as created in the render r.
Hook_speakOf(s, t, r) ==
  LET s1 == Hook_cancel(s)
      estimatedDuration == estimateReadingTime(t, r.playbackSpeed)
  IN [s1 EXCEPT
        !.h.totalTime = formatTime(estimatedDuration),
        !.h.utteranceRef = <<t>>,
        !.h.stopped = FALSE,
        !.queue = <<[kind |-> "hook", started |-> FALSE, text |-> t,
                     rate |-> r.playbackSpeed, total |-> r.totalTime]>>,
        !.h.frames = @ \cup {[text |-> t, playbackSpeed |-> r.playbackSpeed,
                              isPlaying |-> r.isPlaying,
                              isPaused |-> r.isPaused,
                              estimatedDuration |-> estimatedDuration]}]

Hook_speak(s, t) == Hook_speakOf(s, t, HookRender(s.h))

\* updateProgress of the closure f, run by requestAnimationFrame
Hook_updateProgress(s, f) ==
  LET s1 == [s EXCEPT !.h.frames = @ \ {f}]
  IN IF s.h.utteranceRef # <<>> /\ f.isPlaying /\ ~f.isPaused
     THEN LET elapsed == now - s.h.startTimeRef - s.h.pausedTimeRef
              progressPercent ==
                Min((elapsed * FullProgress) \div f.estimatedDuration, FullProgress)
          IN [s1 EXCEPT !.h.progress = progressPercent,
                        !.h.currentTime = formatTime(elapsed),
                        !.h.frames = IF progressPercent < FullProgress
                                     THEN @ \cup {f} ELSE @]
     ELSE s1

Hook_pause(s) ==
  IF s.queue # <<>> /\ ~s.enginePaused
  THEN [s EXCEPT !.enginePaused = TRUE, !.h.isPaused = TRUE,
                 !.h.pausedTimeRef = @ + (now - s.h.startTimeRef)]
  ELSE s

Hook_resume(s) ==
  IF s.enginePaused
  THEN [s EXCEPT !.enginePaused = FALSE, !.h.isPaused = FALSE,
                 !.h.startTimeRef = now]
  ELSE s

Hook_stop(s) ==
  [Hook_cancel(s) EXCEPT !.h.isPlaying = FALSE, !.h.isPaused = FALSE,
                         !.h.progress = 0, !.h.currentTime = <<0, 0>>,
                         !.h.totalTime = <<0, 0>>, !.h.pausedTimeRef = 0,
                         !.h.stopped = TRUE]

\* setSpeed(speed): the timeout keeps the speak of the render setSpeed was
\* created in, with the playbackSpeed of before the call.
Hook_setSpeed(s, speed) ==
  LET s1 == [s EXCEPT !.h.playbackSpeed = speed]
  IN IF s.h.utteranceRef # <<>> /\ s.h.isPlaying
     THEN [Hook_stop(s1) EXCEPT
             !.h.restarts = @ \cup {[text |-> s.h.utteranceRef[1],
                                      render |-> HookRender(s.h)]}]
     ELSE s1

\* --------------------------------------------------------------- actions
InitBase ==
  /\ text \in SampleTexts
  /\ title = ""
  /\ chunks = ChunksOf(text)
  /\ isPlaying = FALSE
  /\ currentChunkIndex = NULL
  /\ isPausedRef = FALSE
  /\ voiceSettings = DefaultSettings
  /\ tempVoiceSettings = DefaultSettings
  /\ availableVoices = {}
  /\ showModal = FALSE
  /\ showSettings = FALSE
  /\ toast = "none"
  /\ sessions = [i \in 1..MaxSessions |-> DeadSession]
  /\ restarts = {}
  /\ queue = <<>>
  /\ enginePaused = FALSE
  /\ cancelFires \in {"end", "error", "none"}
  /\ pendingEvents = {}
  /\ wakeSupported \in BOOLEAN
  /\ wakeLockRef = NoHandle
  /\ acquirePending = 0
  /\ releasePending = 0
  /\ liveHandles = {}
  /\ visible = TRUE
  /\ stopped = FALSE
  /\ submitLog = <<>>
  /\ hook = HookInit
  /\ now = Epoch

Init == InitBase /\ recording = FALSE

\* The bounds of the model, on the state a handler leaves.
Within(s) ==
  /\ s.acquirePending <= MaxAcquire
  /\ s.releasePending <= MaxRelease
  /\ Cardinality(s.restarts) <= MaxRestarts

\* A closure slot is free for the playChunks the handler may call.
CanPlay(s) == FreeSlots(cancel(s)) # {}

Do(s) == Within(s) /\ Commit(s)

\* "Open & Play" and the X of the reader dialog
OpenModal ==
  /\ visible /\ text # <<>> /\ ~showModal
  /\ Do([St EXCEPT !.showModal = TRUE])

CloseModal ==
  /\ visible /\ showModal
  /\ Do([stopPlayback(St) EXCEPT !.showModal = FALSE])

\* The Play button: shown when !isPlaying && currentChunkIndex === null
PlayWith(throws) ==
  /\ visible /\ showModal /\ ~isPlaying /\ currentChunkIndex = NULL
  /\ HasText(text) /\ CanPlay(St)
  /\ Do(playChunks(St, 0, voiceSettings, availableVoices, throws))

Play == \E throws \in BOOLEAN : PlayWith(throws)

\* The Pause button: shown when isPlaying
Pause ==
  /\ visible /\ showModal /\ isPlaying
  /\ Do(pausePlayback(St))

\* The Resume button: shown when !isPlaying && currentChunkIndex !== null
ResumeWith(throws) ==
  /\ visible /\ showModal /\ ~isPlaying /\ currentChunkIndex # NULL
  /\ CanPlay(St)
  /\ Do(resumePlayback(St, throws))

Resume == \E throws \in BOOLEAN : ResumeWith(throws)

\* The Stop button: disabled when !isPlaying && currentChunkIndex === null
Stop ==
  /\ visible /\ showModal /\ (isPlaying \/ currentChunkIndex # NULL)
  /\ Do(stopPlayback(St))

\* Double click on the displayed chunk i
SeekTo(i, throws) ==
  /\ visible /\ showModal /\ CanPlay(St)
  /\ i \in 0..(Len(chunks) - 1)
  /\ Do(handleTextSelection(St, i, throws))

Seek == \E i \in 0..(Len(chunks) - 1), throws \in BOOLEAN : SeekTo(i, throws)

\* Mouse up in the reader with one word selected
SelectWord ==
  /\ visible /\ showModal
  /\ Do(handleWordSelection(St))

OpenSettings ==
  /\ visible /\ text # <<>> /\ ~showSettings
  /\ Do(openSettings(St))

EditDraft ==
  /\ visible /\ showSettings
  /\ \/ \E c \in SliderChoices :
          Do([St EXCEPT !.tempVoiceSettings.rate = c[1],
                        !.tempVoiceSettings.pitch = c[2],
                        !.tempVoiceSettings.volume = c[3]])
     \/ \E u \in availableVoices :
          Do([St EXCEPT !.tempVoiceSettings.voiceURI = u])

CancelSettings ==
  /\ visible /\ showSettings
  /\ Do([St EXCEPT !.showSettings = FALSE])

ApplySettings ==
  /\ visible /\ showSettings
  /\ Do(applyVoiceSettings(St))

\* The timeout of applyVoiceSettings fires.
RestartOf(r, throws) ==
  /\ r \in restarts /\ CanPlay(St)
  /\ Do(playChunks([St EXCEPT !.restarts = @ \ {r}],
                   r.index, r.vs, r.voices, throws))

RestartFires == \E r \in restarts, throws \in BOOLEAN : RestartOf(r, throws)

\* speechSynthesis.onvoiceschanged (and the load at mount)
VoicesChanged ==
  Do(loadVoices(St))

\* The engine finishes the utterance it is speaking.
UtteranceEnd ==
  /\ queue # <<>> /\ ~enginePaused
  /\ Do(onend([St EXCEPT !.queue = Tail(@)], Head(queue)))

\* The engine reports an error for the utterance at the head of its queue.
UtteranceError ==
  /\ queue # <<>>
  /\ Do(onerror([St EXCEPT !.queue = Tail(@)], Head(queue)))

\* The event of a cancelled utterance is delivered.
EventOf(e) ==
  /\ e \in pendingEvents
  /\ LET s == [St EXCEPT !.pendingEvents = @ \ {e}]
     IN IF e.ev = "end"
        THEN Do(onend(s, e.utt))
        ELSE Do(onerror(s, e.utt))

CancelledEvent == \E e \in pendingEvents : EventOf(e)

\* setTimeout(speakChunk, pause) of the closure in slot sid fires.
TimerOf(sid, throws) ==
  /\ sessions[sid].phase = "waiting"
  /\ Do(speakChunk(St, sid, throws))

TimerFires == \E sid \in DOMAIN sessions, throws \in BOOLEAN : TimerOf(sid, throws)

\* The promise of wakeLock.request('screen') resolves with a new sentinel.
AcquireResolves ==
  /\ acquirePending > 0 /\ visible
  /\ Cardinality(liveHandles \ {wakeLockRef}) < MaxHandles
  /\ LET h == CHOOSE n \in 1..(MaxHandles + 2) :
                /\ n \notin liveHandles \cup {wakeLockRef}
                /\ \A m \in 1..(n - 1) : m \in liveHandles \cup {wakeLockRef}
     IN Do([St EXCEPT !.acquirePending = @ - 1, !.wakeLockRef = h,
                      !.liveHandles = @ \cup {h}])

\* A rejection that is not caught and ends playback.
AcquireRejectsStopping ==
  /\ acquirePending > 0
  /\ Do([stopPlayback(St) EXCEPT !.acquirePending = @ - 1])

\* The promise rejects (caught and logged by requestWakeLock).
AcquireRejects ==
  /\ acquirePending > 0
  /\ Do([St EXCEPT !.acquirePending = @ - 1])

\* release() settles: releaseWakeLock clears the ref.
ReleaseSettles ==
  /\ releasePending > 0
  /\ Do([St EXCEPT !.releasePending = @ - 1, !.wakeLockRef = NoHandle])

\* The page is hidden: the platform releases every screen wake lock.
Hide ==
  /\ visible
  /\ Do([St EXCEPT !.visible = FALSE, !.liveHandles = {}])

\* The page is shown again: handleVisibilityChange
Show ==
  /\ ~visible
  /\ LET s == [St EXCEPT !.visible = TRUE]
     IN Do(IF wakeSupported /\ s.wakeLockRef # NoHandle
           THEN requestWakeLock(s) ELSE s)

\* finishFileProcessing: the text extracted from the uploaded file replaces
\* the text, and the next render chunks it.  Modelled while no closure of
\* playChunks is alive (a closure keeps the chunks of its render).
finishFileProcessing(extractedText, fileName) ==
  /\ visible /\ ~showModal /\ ~showSettings
  /\ \A i \in DOMAIN sessions : sessions[i].phase = "dead"
  /\ restarts = {}
  /\ text' = extractedText /\ chunks' = ChunksOf(extractedText)
  /\ title' = fileName
  /\ Assign([St EXCEPT !.toast = "Success"])

\* A plain-text file f.txt with content t is uploaded.
LoadText(t) == finishFileProcessing(t, "f")

\* Files offered to the upload: a name, a size in bytes, a MIME type and the
\* text the reader or the extractor gets out of the file.
MaxFileSize == 10485760
FileTypes == {"text/plain", "application/pdf", "docx", "image/png"}
Files ==
  [name : {"f", "g", "h"}, size : {MaxFileSize, MaxFileSize + 1},
   type : FileTypes, content : ShortTexts]

\* handleFileUpload with the file f chosen
handleFileUpload(f) ==
  /\ visible /\ ~showModal /\ ~showSettings
  /\ \A i \in DOMAIN sessions : sessions[i].phase = "dead"
  /\ restarts = {}
  /\ IF f.size > MaxFileSize
     THEN Do([St EXCEPT !.toast = "Error"])
     ELSE IF f.type = "text/plain"
     THEN finishFileProcessing(f.content, f.name)
     ELSE LET extractedText == IF f.type \in {"application/pdf", "docx"}
                               THEN f.content ELSE <<>>
          IN IF ~HasText(extractedText)
             THEN Do([St EXCEPT !.toast = "Error"])
             ELSE finishFileProcessing(extractedText, f.name)

Upload == \E f \in Files : handleFileUpload(f)

\* The Clear button: handleClear
Clear ==
  /\ visible /\ ~showModal /\ ~showSettings
  /\ \A i \in DOMAIN sessions : sessions[i].phase = "dead"
  /\ restarts = {}
  /\ text' = <<>> /\ chunks' = <<>> /\ title' = ""
  /\ Within(stopPlayback(St)) /\ Assign(stopPlayback(St))

\* ---------------------------------------- actions of useSpeechSynthesis
HookSpeakOf(t) == HookCommit(Hook_speak(HookSt, t))

HookSpeak == \E t \in HookTexts : HookSpeakOf(t)

HookSpeakWords == HookSpeakOf(FiveWords)

HookPause == HookCommit(Hook_pause(HookSt))

HookResume == HookCommit(Hook_resume(HookSt))

HookStop == HookCommit(Hook_stop(HookSt))

\* The engine starts the utterance at the head of its queue.
HookStart ==
  /\ queue # <<>> /\ ~enginePaused
  /\ Head(queue).kind = "hook" /\ ~Head(queue).started
  /\ HookCommit(Hook_onstart([HookSt EXCEPT !.queue[1].started = TRUE]))

\* The engine finishes the utterance it is speaking.
HookEnd ==
  /\ queue # <<>> /\ ~enginePaused
  /\ Head(queue).kind = "hook" /\ Head(queue).started
  /\ HookCommit(Hook_onend([HookSt EXCEPT !.queue = Tail(@)], Head(queue).total))

\* The engine reports an error for the utterance at the head of its queue.
HookError ==
  /\ queue # <<>> /\ Head(queue).kind = "hook"
  /\ HookCommit(Hook_onerror([HookSt EXCEPT !.queue = Tail(@)]))

\* The event of a cancelled utterance of the hook is delivered.
HookCancelledEvent ==
  \E e \in hook.events :
    LET s == [HookSt EXCEPT !.h.events = @ \ {e}]
    IN IF e.ev = "end" THEN HookCommit(Hook_onend(s, e.total))
       ELSE HookCommit(Hook_onerror(s))

\* The speed control is set to a speed of the slider other than the current.
HookSpeeds == {5, 10, 20}

HookSetSpeedTo(speed) ==
  /\ speed # hook.playbackSpeed
  /\ Cardinality(Hook_setSpeed(HookSt, speed).h.restarts) <= MaxRestarts
  /\ HookCommit(Hook_setSpeed(HookSt, speed))

HookSetSpeed == \E speed \in HookSpeeds : HookSetSpeedTo(speed)

\* The timeout of setSpeed fires.
HookRestartOf(r) ==
  /\ r \in hook.restarts
  /\ HookCommit(Hook_speakOf([HookSt EXCEPT !.h.restarts = @ \ {r}],
                             r.text, r.render))

HookRestartFires == \E r \in hook.restarts : HookRestartOf(r)

\* An animation frame runs a scheduled updateProgress.
SampleOf(f) ==
  /\ f \in hook.frames
  /\ HookCommit(Hook_updateProgress(HookSt, f))

Sample == \E f \in hook.frames : SampleOf(f)

\* Time passes.
Elapse ==
  /\ now < Epoch + MaxTicks * TickMs
  /\ now' = now + TickMs
  /\ UNCHANGED <<text, title, chunks, isPlaying, currentChunkIndex, isPausedRef,
                 voiceSettings, tempVoiceSettings, availableVoices, showModal,
                 showSettings, toast, sessions, restarts, queue, enginePaused,
                 cancelFires, pendingEvents, wakeSupported, wakeLockRef,
                 acquirePending, releasePending, liveHandles, visible, stopped,
                 recording, submitLog, hook>>

\* The playback controller with its wake lock and the restart of the settings
\* dialog, the settings themselves left as they are at mount.
Next ==
  \/ OpenModal \/ CloseModal \/ Play \/ Pause \/ Resume \/ Stop \/ Seek
  \/ OpenSettings \/ CancelSettings \/ ApplySettings
  \/ RestartFires \/ UtteranceEnd \/ UtteranceError
  \/ CancelledEvent \/ TimerFires \/ AcquireResolves \/ AcquireRejects
  \/ ReleaseSettles

Spec == Init /\ [][Next]_vars

\* An uninterrupted play-through: Play once, the engine completes every
\* utterance, every timer fires, speak never throws, no other user action.
InitPlaythrough == InitBase /\ recording = TRUE

PlayFromStart == submitLog = <<>> /\ PlayWith(FALSE)

TimerCompletes == \E sid \in DOMAIN sessions : TimerOf(sid, FALSE)

NextPlaythrough ==
  \/ OpenModal \/ PlayFromStart \/ UtteranceEnd \/ TimerCompletes
  \/ AcquireResolves \/ AcquireRejects \/ ReleaseSettles

SpecPlaythrough == InitPlaythrough /\ [][NextPlaythrough]_vars

\* The same play-through where the engine does complete every utterance, every
\* timer does fire and every promise of the platform does settle.
SpecPlaythroughFair ==
  /\ SpecPlaythrough
  /\ WF_vars(UtteranceEnd)
  /\ WF_vars(TimerCompletes)
  /\ WF_vars(AcquireResolves \/ AcquireRejects)
  /\ WF_vars(ReleaseSettles)

\* A play session interrupted by pause and resume only: Play once, then Pause
\* and Resume at any moment, the engine completing utterances and the timers
\* firing.  The log of submissions is kept, up to MaxLog entries.
InitPauseResume == InitBase /\ recording = TRUE

ResumeLogged == Len(submitLog) < MaxLog /\ Resume

NextPauseResume ==
  \/ OpenModal \/ PlayFromStart \/ Pause \/ ResumeLogged
  \/ UtteranceEnd \/ TimerCompletes
  \/ AcquireResolves \/ AcquireRejects \/ ReleaseSettles

SpecPauseResume == InitPauseResume /\ [][NextPauseResume]_vars

\* Manual seek from any state: Play, Pause, Stop and double clicks on the
\* displayed chunks, with the events of cancelled utterances, on a platform
\* without wake lock.  The log of submissions is kept, up to MaxLog entries.
InitSeek == InitBase /\ recording = TRUE /\ ~wakeSupported

SeekLogged == Len(submitLog) < MaxLog /\ Seek

NextSeek ==
  \/ OpenModal \/ PlayFromStart \/ Pause \/ Stop \/ SeekLogged
  \/ UtteranceEnd \/ TimerCompletes \/ CancelledEvent

SpecSeek == InitSeek /\ [][NextSeek]_vars

\* The chunker on uploaded texts: the component is cleared and a plain-text
\* file is loaded into it.  What LoadText leaves does not depend on the text
\* before it, so files are loaded into the cleared component only.
InitChunker ==
  /\ InitBase /\ recording = FALSE /\ ~wakeSupported /\ cancelFires = "none"

UploadText == text = <<>> /\ \E t \in UploadTexts : LoadText(t)

NextChunker == Clear \/ UploadText

SpecChunker == InitChunker /\ [][NextChunker]_vars

\* Files of every kind uploaded into the component, and the Clear button.
NextUpload == Upload \/ Clear

SpecUpload == InitChunker /\ [][NextUpload]_vars

\* Playback with words selected in the reader.
InitWord == InitBase /\ recording = FALSE /\ ~wakeSupported

NextWord ==
  \/ OpenModal \/ Play \/ Pause \/ Resume \/ Stop \/ SelectWord
  \/ UtteranceEnd \/ TimerFires \/ CancelledEvent

SpecWord == InitWord /\ [][NextWord]_vars

\* The wake lock under playback and visibility changes: the playback buttons,
\* the engine's events, the promises of the platform and the page being hidden
\* and shown.
InitWake == InitBase /\ recording = FALSE /\ cancelFires = "none"

NextWake ==
  \/ OpenModal \/ Play \/ Pause \/ Resume \/ Stop
  \/ UtteranceEnd \/ UtteranceError \/ TimerFires
  \/ AcquireResolves \/ AcquireRejects \/ ReleaseSettles
  \/ Hide \/ Show

SpecWake == InitWake /\ [][NextWake]_vars

\* The wake lock on a platform that has wake locks and grants every request,
\* the page staying visible: playback with seeks, and the promises settling.
InitGranted == InitWake /\ wakeSupported

NextGranted ==
  \/ OpenModal \/ Play \/ Pause \/ Resume \/ Stop \/ Seek
  \/ UtteranceEnd \/ TimerFires
  \/ AcquireResolves \/ ReleaseSettles

SpecGranted == InitGranted /\ [][NextGranted]_vars

\* The hook useSpeechSynthesis on its own: its five operations but setSpeed,
\* the events of the engine, the animation frames and the clock.
InitProgress ==
  /\ InitBase /\ recording = FALSE /\ ~wakeSupported /\ text = <<"a">>

NextProgress ==
  \/ HookSpeakWords \/ HookPause \/ HookResume \/ HookStop
  \/ HookStart \/ HookEnd \/ HookError \/ HookCancelledEvent
  \/ Sample \/ Elapse

SpecProgress == InitProgress /\ [][NextProgress]_vars

\* The hook asked to speak any of its texts, with the clock standing still.
NextEstimate ==
  \/ HookSpeak \/ HookStop \/ HookStart \/ HookEnd \/ Sample

SpecEstimate == InitProgress /\ [][NextEstimate]_vars

\* The hook with its speed control, the clock standing still.
NextSpeed ==
  \/ HookSpeakWords \/ HookSetSpeed \/ HookRestartFires
  \/ HookStart \/ HookEnd \/ Sample

InitSpeed == InitProgress /\ cancelFires = "none"

SpecSpeed == InitSpeed /\ [][NextSpeed]_vars

\* The settings dialog with its draft and the voices of the engine, on one
\* text, a platform without wake lock and a browser that fires no event on
\* a cancelled utterance.
InitSettings ==
  /\ InitBase /\ recording = FALSE /\ ~wakeSupported /\ cancelFires = "none"
  /\ text = <<"a", ".", "\n", "b", "?">>

NextSettings ==
  \/ OpenModal \/ Play \/ Seek \/ Pause \/ Stop
  \/ OpenSettings \/ EditDraft \/ CancelSettings \/ ApplySettings
  \/ RestartFires \/ VoicesChanged

SpecSettings == InitSettings /\ [][NextSettings]_vars

\* ------------------------------------------------------------ properties
\* The playback state the controller is in: Playing is isPlaying, Paused is
\* isPausedRef.current (what applyVoiceSettings and speakChunk test), Idle
\* is neither.
PlaybackState ==
  IF isPlaying THEN "Playing" ELSE IF isPausedRef THEN "Paused" ELSE "Idle"

\* Positions in the engine's queue that hold a chunk utterance.
ChunkUtterances == {i \in 1..Len(queue) : queue[i].kind = "chunk"}

\* Slots of closures alive, and of those a stop or a later play superseded.
Live == {sid \in DOMAIN sessions : sessions[sid].phase # "dead"}
Stale == {sid \in Live : sessions[sid].staleIn # "none"}

\* The controller after stop(): Idle, no cursor, nothing with the engine.
Quiet ==
  /\ PlaybackState = "Idle"
  /\ currentChunkIndex = NULL
  /\ ChunkUtterances = {}

\* C1: in every reachable state the engine holds at most one chunk utterance
\* that was submitted and has neither finished nor been cancelled.
C1_AtMostOneUtterance == Cardinality(ChunkUtterances) <= 1

\* C2: after stop(), with no play since, the controller stays Idle with cursor
\* null and no chunk is submitted, whatever events of the utterances that
\* were in flight at the stop are delivered (no timer was pending at the stop).
C2_StaleEndIgnored ==
  (stopped /\ \A sid \in Stale : sessions[sid].staleIn = "speaking") => Quiet

\* C3: after a stop() issued while delay timers were pending (and no utterance
\* in flight), with no play since, the controller stays Idle with cursor null
\* and no chunk is submitted when the timers fire.
C3_StopCancelsDelay ==
  (stopped /\ \A sid \in Stale : sessions[sid].staleIn = "waiting") => Quiet

\* C4: once a newer play has been issued, a callback or timer of a superseded
\* closure submits no chunk and changes neither the playback state, the cursor
\* nor the wake lock.
C4_StaleSessionIgnored ==
  [][\A sid \in Stale :
       (~stopped /\ (\/ \E throws \in BOOLEAN : TimerOf(sid, throws)
                     \/ \E e \in pendingEvents : e.utt.sess = sid /\ EventOf(e)))
       => UNCHANGED <<isPlaying, isPausedRef, currentChunkIndex, queue,
                      wakeLockRef, releasePending, liveHandles,
                      acquirePending>>]_vars

\* C5: no state is both Playing and Paused; with neither flag set (Idle) the
\* cursor is null, and while Playing the cursor is a valid chunk index.
C5_StateCursorInvariant ==
  /\ ~(isPlaying /\ isPausedRef)
  /\ PlaybackState = "Idle" => currentChunkIndex = NULL
  /\ PlaybackState = "Playing" => currentChunkIndex \in 0..(Len(chunks) - 1)

\* C6: stop() leaves the controller Idle with cursor null at once, whether or
\* not an event of the utterance in flight is ever delivered.
C6_StopYieldsIdle ==
  [][Stop => (PlaybackState' = "Idle" /\ currentChunkIndex' = NULL)]_vars

\* C6 witness: play(0) then stop(), the event of the cancelled utterance of
\* chunk 0 not delivered.
C6_Witness ==
  /\ stopped /\ PlaybackState = "Idle" /\ currentChunkIndex = NULL
  /\ \E e \in pendingEvents : e.utt.index = 0
  /\ \A sid \in Live : sessions[sid].staleIn = "speaking"

\* C7: in an uninterrupted play-through the chunks submitted so far are
\* 0, 1, 2, ... in this order, never more than the text has; the engine holds
\* at most one utterance, the one submitted last, so that a chunk is submitted
\* only once the one before it has completed; and when the play-through has
\* ended every chunk has been submitted exactly once.
C7_SequentialDispatch ==
  /\ Len(submitLog) <= Len(chunks)
  /\ \A i \in 1..Len(submitLog) : submitLog[i] = i - 1
  /\ Len(queue) <= 1
  /\ queue # <<>> => queue[1].index = Len(submitLog) - 1
  /\ (submitLog # <<>> /\ Live = {} /\ queue = <<>>)
        => Len(submitLog) = Len(chunks)

\* C7 witness: a play-through of a text of three chunks has ended.
C7_Witness ==
  /\ submitLog = <<0, 1, 2>>
  /\ Len(chunks) = 3
  /\ Live = {} /\ queue = <<>>

\* C8: when the restart that an apply of new settings scheduled runs, the
\* settings applied still being the committed ones, the engine holds exactly
\* one utterance, for the chunk the cursor was at, with the voice, rate, pitch
\* and volume of the settings applied.
C8_RestartUsesNewSettings ==
  [][\A r \in restarts :
       (RestartOf(r, FALSE) /\ voiceSettings = r.applied)
       => /\ Len(queue') = 1
          /\ queue'[1] = ChunkUtterance(queue'[1].sess, r.index, r.applied,
                                        availableVoices)]_vars

\* C9: an error the engine reports for the chunk being spoken while Playing
\* leaves the controller Idle with cursor null, the wake lock released or
\* being released, the failure shown to the user and no chunk with the engine.
C9_ErrorEndsSession ==
  [][(UtteranceError /\ Head(queue).kind = "chunk" /\ isPlaying /\ Stale = {})
       => /\ PlaybackState' = "Idle"
          /\ currentChunkIndex' = NULL
          /\ ChunkUtterances' = {}
          /\ toast' = "Error"
          /\ (wakeLockRef' = NoHandle \/ releasePending' > 0)]_vars

\* C10: once play(0) has submitted a chunk, the play-through left to itself
\* comes to rest Idle with cursor null and no wake lock held.
C10_EventuallyIdleReleased ==
  (submitLog # <<>>)
    ~> [](/\ PlaybackState = "Idle"
          /\ currentChunkIndex = NULL
          /\ wakeLockRef = NoHandle
          /\ liveHandles = {})

\* The step hands the engine no utterance: what the queue holds after it, it
\* held before.
NoSubmission ==
  /\ Len(queue') <= Len(queue)
  /\ \A i \in 1..Len(queue') : \E j \in 1..Len(queue) : queue'[i] = queue[j]

\* C11: a step that starts and ends with the controller paused (pause() issued,
\* no resume, stop or play since) submits nothing to the engine; in particular
\* the timer of an inter-chunk delay that elapses while paused submits nothing.
C11_PausedSubmitsNothing ==
  [][(isPausedRef /\ isPausedRef') => NoSubmission]_vars

\* C11 witness: the delay elapsed while paused: the closure has returned, the
\* cursor is retained and the engine holds nothing.
C11_Witness ==
  /\ isPausedRef /\ ~isPlaying
  /\ currentChunkIndex # NULL
  /\ Live = {} /\ queue = <<>> /\ pendingEvents = {}

C13_SeekPlaysChunk ==
  [][\A i \in 0..(Len(chunks) - 1) :
       SeekTo(i, FALSE)
       => /\ isPlaying' /\ ~isPausedRef'
          /\ currentChunkIndex' = i
          /\ Len(queue') = 1
          /\ queue'[1] = ChunkUtterance(queue'[1].sess, i, voiceSettings,
                                        availableVoices)
          /\ submitLog' = Append(submitLog, i)]_vars

\* C13 witness: after play(0) a seek to chunk 2 was made while chunk 0 was in
\* flight: chunk 2 is the utterance with the engine.
C13_Witness ==
  /\ submitLog = <<0, 2>>
  /\ isPlaying /\ currentChunkIndex = 2
  /\ Len(queue) = 1 /\ queue[1].index = 2

\* C14: the chunker returns no chunk exactly when the text is empty or holds
\* whitespace only.
C14_NoChunksIffBlank == (chunks = <<>>) <=> ~HasText(text)

\* C15: the chunks joined in order are the text.
C15_ChunksRoundTrip == Join(chunks) = text

\* C16: a text that is one whitespace-free word longer than the chunk length
\* is one chunk, the whole word.
C16_LongWordWhole ==
  (Len(text) > ChunkMaxLen /\ \A i \in 1..Len(text) : ~IsWhitespace(text[i]))
    => chunks = <<text>>

\* C17: every chunk utterance with the engine carries, for the settings base
\* of the closure that built it: rate max(0.7, base.rate - 0.1) when the text
\* of the chunk, its trailing whitespace aside, ends in '.', '!' or '?', else
\* base.rate; pitch min(2.0, base.pitch + 0.1) when it ends in '?', else
\* base.pitch; and volume base.volume.
C17_ProsodyParameters ==
  \A i \in 1..Len(queue) :
    queue[i].kind = "chunk" =>
      LET u == queue[i]
          c == chunks[u.index + 1]
          base == sessions[u.sess].vs
          shown == {k \in 1..Len(c) : ~IsWhitespace(c[k])}
          last == IF shown = {} THEN " "
                  ELSE c[CHOOSE k \in shown : \A j \in shown : j <= k]
      IN /\ u.rate = IF IsSentenceEnd(last)
                      THEN Max(MinSentenceRate, base.rate - 1) ELSE base.rate
         /\ u.pitch = IF last = "?"
                       THEN Min(MaxQuestionPitch, base.pitch + 1) ELSE base.pitch
         /\ u.volume = base.volume

\* C18: while the timer of a closure is pending before a further chunk, its
\* delay is 350 ms when the text of the chunk just completed, its trailing
\* whitespace aside, ends in '.', '!' or '?', and 200 ms otherwise.
C18_InterChunkDelay ==
  \A sid \in Live :
    (sessions[sid].phase = "waiting" /\ sessions[sid].index < Len(chunks)) =>
      LET c == chunks[sessions[sid].index]
          shown == {k \in 1..Len(c) : ~IsWhitespace(c[k])}
          last == IF shown = {} THEN " "
                  ELSE c[CHOOSE k \in shown : \A j \in shown : j <= k]
      IN sessions[sid].pause =
           IF IsSentenceEnd(last) THEN SentencePause ELSE ChunkPause

\* C19: the progress the hook reports lies in 0..100 per cent and the current
\* time it reports is not negative.
C19_ProgressInRange ==
  /\ hook.progress \in 0..FullProgress
  /\ hook.currentTime[1] >= 0
  /\ hook.currentTime[2] >= 0

\* C20: while the hook is playing and not paused an updateProgress that
\* recomputes is scheduled, and a sample taken while the hook is paused
\* changes neither progress nor current time.
C20_SampledPlayingFrozenPaused ==
  /\ []((hook.isPlaying /\ ~hook.isPaused /\ queue # <<>>)
          => \E f \in hook.frames : f.isPlaying /\ ~f.isPaused)
  /\ [][(hook.isPaused /\ Sample)
          => (hook.progress' = hook.progress
              /\ hook.currentTime' = hook.currentTime)]_vars

\* C21: from stop until the next speak the hook reports progress 0 and the
\* current time 0:00, whatever sample or event arrives in between.
C21_StoppedStaysZero ==
  hook.stopped => (hook.progress = 0 /\ hook.currentTime = <<0, 0>>)

C23_ReacquiredOnShow ==
  [][(Show /\ wakeLockRef # NoHandle /\ releasePending = 0)
       => acquirePending' = acquirePending + 1]_vars

\* C24: at most one wake lock obtained from the platform is live at a time.
C24_SingleLiveHandle == Cardinality(liveHandles) <= 1

\* C25: Play sets Playing and submits chunk 0 whether or not the platform has
\* wake locks, and a rejected wake-lock request changes nothing of playback.
C25_PlaybackWithoutWakeLock ==
  /\ [][PlayWith(FALSE)
          => /\ isPlaying' /\ ~isPausedRef' /\ currentChunkIndex' = 0
             /\ Len(queue') = 1
             /\ queue'[1] = ChunkUtterance(queue'[1].sess, 0, voiceSettings,
                                           availableVoices)]_vars
  /\ [][AcquireRejects
          => UNCHANGED <<isPlaying, isPausedRef, currentChunkIndex, queue,
                         enginePaused, sessions, pendingEvents, restarts,
                         toast, stopped>>]_vars

\* C25 witness: on a platform without wake locks playback has gone on to
\* chunk 1, no request made and no lock held.
C25_Witness ==
  /\ ~wakeSupported /\ acquirePending = 0 /\ wakeLockRef = NoHandle
  /\ releasePending = 0 /\ liveHandles = {}
  /\ isPlaying /\ currentChunkIndex = 1
  /\ Len(queue) = 1 /\ queue[1].kind = "chunk" /\ queue[1].index = 1

\* C26: opening the settings dialog, editing the draft, cancelling the dialog
\* and a voiceschanged event arriving once a voice is set all leave the
\* committed voice settings as they are.
C26_CommittedOnlyByApply ==
  [][(\/ OpenSettings \/ EditDraft \/ CancelSettings
      \/ (VoicesChanged /\ voiceSettings.voiceURI # NoVoice))
       => voiceSettings' = voiceSettings]_vars

\* C27: the committed voice settings have rate and pitch in 0.5..2.0 and
\* volume in 0.0..1.0 (in tenths), and every utterance with the engine has
\* rate and pitch in 0.5..2.0.
C27_SettingsInRange ==
  /\ voiceSettings.rate \in 5..20
  /\ voiceSettings.pitch \in 5..20
  /\ voiceSettings.volume \in 0..10
  /\ \A i \in 1..Len(queue) : queue[i].rate \in 5..20 /\ queue[i].pitch \in 5..20

\* C27 witness: rate and pitch committed at 2.0, and the question chunk with
\* the engine at the capped pitch 2.0 and the slowed rate 1.9.
C27_Witness ==
  /\ voiceSettings.rate = 20 /\ voiceSettings.pitch = 20
  /\ Len(queue) = 1 /\ queue[1].kind = "chunk" /\ queue[1].index = 1
  /\ queue[1].pitch = 20 /\ queue[1].rate = 19

\* C28: selecting a word in the reader neither submits an utterance to the
\* engine nor cancels what the engine holds.
C28_SelectionLeavesEngine ==
  [][SelectWord => queue' = queue]_vars

\* C29: the upload of a file that is too large, of a type that is not
\* accepted, or without text other than whitespace shows an error and leaves
\* text and title as they are.
C29_RejectedUploadChangesNothing ==
  [][\A f \in Files :
       (/\ \/ f.size > MaxFileSize
           \/ f.type \notin {"text/plain", "application/pdf", "docx"}
           \/ ~HasText(f.content)
        /\ handleFileUpload(f))
       => (toast' = "Error" /\ text' = text /\ title' = title)]_vars

\* C30: in a session started by Play and interrupted only by Pause and
\* Resume the chunks are submitted in order, each once: the k-th submission
\* is chunk k - 1.
C30_EachChunkOnce ==
  \A k \in 1..Len(submitLog) : submitLog[k] = k - 1

\* C31: while a chunk utterance is at the head of the engine's queue
\* (speaking or suspended) the controller is Playing or Paused and the cursor
\* is the index of that chunk.
C31_InFlightMatchesCursor ==
  (queue # <<>> /\ Head(queue).kind = "chunk")
    => /\ PlaybackState \in {"Playing", "Paused"}
       /\ currentChunkIndex = Head(queue).index

\* C32: while the controller is Playing and no wake-lock request or release
\* is pending, the component holds a wake lock that is live.
C32_PlayingHoldsLock ==
  (isPlaying /\ acquirePending = 0 /\ releasePending = 0)
    => (wakeLockRef # NoHandle /\ wakeLockRef \in liveHandles)

\* C33: while the controller is Idle and no wake-lock request or release is
\* pending, no wake lock is held.
C33_IdleHoldsNoLock ==
  (PlaybackState = "Idle" /\ acquirePending = 0 /\ releasePending = 0)
    => (wakeLockRef = NoHandle /\ liveHandles = {})

\* C34: the rate of the utterance of a chunk that ends a sentence is at most
\* the base rate of the settings it was built with.
C34_SentenceEndNotFaster ==
  \A i \in 1..Len(queue) :
    queue[i].kind = "chunk" =>
      LET u == queue[i]
          c == chunks[u.index + 1]
          shown == {k \in 1..Len(c) : ~IsWhitespace(c[k])}
          last == IF shown = {} THEN " "
                  ELSE c[CHOOSE k \in shown : \A j \in shown : j <= k]
      IN IsSentenceEnd(last) => u.rate <= sessions[u.sess].vs.rate

\* C35: the restart that setSpeed(s) schedules while an utterance is playing
\* submits the same text at rate s.
C35_RestartAtNewSpeed ==
  [][\A r \in hook.restarts :
       HookRestartOf(r)
         => /\ Len(queue') = 1
            /\ queue'[1].text = r.text
            /\ queue'[1].rate = hook.playbackSpeed]_vars

\* C36: of two estimates made for the same text, the one made at the higher
\* speed is not the longer.
C36_EstimateNotLongerWhenFaster ==
  \A f, g \in hook.frames :
    (f.text = g.text /\ f.playbackSpeed <= g.playbackSpeed)
      => f.estimatedDuration >= g.estimatedDuration

====
